---- MODULE Spec2Model ----
(***************************************************************************)
(* A model of workloads.py: the private-first / public-fallback client     *)
(* initialisation (init_k8s_client, get_cluster_credentials), the two      *)
(* namespace walks (list_ingresses, list_gateways), the nested-dict        *)
(* aggregation, the two flatteners and the CSV sink (write_csv), driven    *)
(* as main() drives them.                                                  *)
(*                                                                         *)
(* Python values are modelled as follows.                                  *)
(*   - None, where a string may stand, is the string PyNone.               *)
(*   - A dict is a sequence of [k, v] entries in insertion order; its keys *)
(*     are tagged (StrKey, IntKey) because Python compares an int key and  *)
(*     a str key as unequal.                                               *)
(*   - A dict read with .get(key, default) is an optional [has, v].        *)
(*   - A Gateway status address value is a sequence of characters, so that *)
(*     .lower() and the substring test are computed.                       *)
(***************************************************************************)
EXTENDS Integers, Sequences, FiniteSets, TLC

\* Bounds of the model.
MaxNs == 2         \* namespaces in the cluster
MaxIngresses == 1  \* Ingress objects one listing returns
MaxGateways == 2   \* Gateway objects one listing returns
MaxAddrs == 3      \* status addresses of the Gateway that is classified

PROJECT_ID == "your-project-id"
CLUSTER_NAME == "your-cluster-name"
PyNone == "<None>"

VARIABLES
    entry,               \* the function the run enters: "main", "list_gateways", "classify",
                         \* "list_workloads_and_routes"
    pc,                  \* position of the run
    cluster,             \* the cluster: metadata and what a probe of each endpoint gives
    cluster_namespaces,  \* what list_namespace().items returns (namespace names)
    customApi,           \* the module global list_gateways reads: "unbound" or "bound"
    default_config,      \* host of the kubernetes client's default Configuration
    resolved,            \* the get_cluster_credentials calls made, in order
    probes,              \* the capability probes made (endpoint kinds), in order
    session,             \* endpoint of the API clients init_k8s_client returned
    printed,             \* what init_k8s_client and main printed, in order
    exc,                 \* the exception that left the entered function / main caught
    nsIdx,               \* index of the namespace loop
    api_calls,           \* the per-namespace listing calls made, with their results
    ingress_endpoints,
    gateway_endpoints,
    flat_ingress_data,
    flat_gateway_data,
    write_calls,         \* the arguments of every write_csv call
    csvfile,             \* content of endpoints.csv: a sequence of lines
    addresses,           \* the status addresses of the Gateway that is classified
    classified           \* the loadbalancer / ip_address fields stored for them

vars == <<entry, pc, cluster, cluster_namespaces, customApi, default_config, resolved,
          probes, session, printed, exc, nsIdx, api_calls, ingress_endpoints,
          gateway_endpoints, flat_ingress_data, flat_gateway_data, write_calls,
          csvfile, addresses, classified>>

Range(s) == {s[i] : i \in 1..Len(s)}

RECURSIVE SeqsUpTo(_, _)
SeqsUpTo(S, n) ==
    IF n = 0 THEN {<<>>}
    ELSE LET shorter == SeqsUpTo(S, n - 1)
         IN  shorter \cup {Append(s, x) : s \in {t \in shorter : Len(t) = n - 1}, x \in S}

-----------------------------------------------------------------------------
\* Exceptions.  A Python exception raised while another is being handled
\* carries the handled one as its __context__; context lists that chain,
\* innermost handler first.

NoExc == [type |-> "none", msg |-> "", context |-> <<>>]

NewExc(type, msg) == [type |-> type, msg |-> msg, context |-> <<>>]

RaisedWhileHandling(e, handled) ==
    [e EXCEPT !.context = <<handled.type>> \o handled.context]

\* Where an exception that leaves the entered function ends up: main has one
\* handler for everything (except Exception); a function entered alone raises
\* to its caller.
Propagated == IF entry = "main" THEN "main_except" ELSE "raised"

-----------------------------------------------------------------------------
\* Client initialisation.

ProbeOutcomes == {"ok", "ConnectTimeout", "ApiException", "MaxRetryError"}

Clusters ==
    [hasPrivate : {TRUE}, privProbe : ProbeOutcomes, pubProbe : ProbeOutcomes]
    \cup [hasPrivate : {FALSE}, privProbe : {"n/a"}, pubProbe : ProbeOutcomes]

\* get_cluster_credentials: the exception it raises, if any, and the host of the
\* default Configuration that load_kube_config_from_dict leaves behind.  The
\* function has no return statement: the caller gets None, and the clients
\* built from None use the default Configuration.
get_cluster_credentials(use_private_endpoint, cl, current_default) ==
    IF use_private_endpoint /\ ~cl.hasPrivate
    THEN [exc |-> NewExc("ValueError", "Private endpoint not available"),
          default |-> current_default]
    ELSE [exc |-> NoExc,
          default |-> IF use_private_endpoint THEN "private" ELSE "public"]

\* core_v1.list_namespace() through a client bound to `host`.
ProbeResult(cl, host) == IF host = "private" THEN cl.privProbe ELSE cl.pubProbe

\* A fallback clause that names the timeout alone.
CaughtTimeoutOnly(type) == type = "ConnectTimeout"

\* except (requests.exceptions.ConnectTimeout, client.exceptions.ApiException)
CaughtByFallbackClause(type) == type \in {"ConnectTimeout", "ApiException"}

NegotiationUnchanged ==
    UNCHANGED <<entry, cluster, cluster_namespaces, customApi, nsIdx, api_calls,
                ingress_endpoints, gateway_endpoints, flat_ingress_data,
                flat_gateway_data, write_calls, csvfile, addresses, classified>>

\* Lines 21-22 and, when the exception matches, the handler's line 31.
ResolvePrivate ==
    /\ pc = "init_resolve_private"
    /\ LET r == get_cluster_credentials(TRUE, cluster, default_config)
       IN  /\ resolved' = Append(resolved, "private")
           /\ default_config' = r.default
           /\ IF r.exc = NoExc
              THEN /\ pc' = "init_probe_private"
                   /\ UNCHANGED <<exc, printed>>
              ELSE IF CaughtByFallbackClause(r.exc.type)
              THEN /\ pc' = "init_resolve_public"
                   /\ exc' = r.exc
                   /\ printed' = Append(printed, "Private endpoint failed")
              ELSE /\ pc' = Propagated
                   /\ exc' = r.exc
                   /\ UNCHANGED printed
    /\ UNCHANGED <<probes, session>>
    /\ NegotiationUnchanged

\* The private attempt without its return: a successful probe goes on to the
\* public attempt.
ProbePrivateNoReturn ==
    /\ pc = "init_probe_private"
    /\ probes' = Append(probes, default_config)
    /\ LET outcome == ProbeResult(cluster, default_config)
       IN  IF outcome = "ok" \/ CaughtByFallbackClause(outcome)
           THEN /\ printed' = Append(printed, "Private endpoint failed")
                /\ exc' = NewExc(outcome, "private probe")
                /\ pc' = "init_resolve_public"
                /\ UNCHANGED session
           ELSE /\ exc' = NewExc(outcome, "private probe")
                /\ pc' = Propagated
                /\ UNCHANGED <<printed, session>>
    /\ UNCHANGED <<default_config, resolved>>
    /\ NegotiationUnchanged

\* Lines 24-29 and, on a caught failure, line 31.
ProbePrivate ==
    /\ pc = "init_probe_private"
    /\ probes' = Append(probes, default_config)
    /\ LET outcome == ProbeResult(cluster, default_config)
       IN  IF outcome = "ok"
           THEN /\ printed' = Append(printed, "Connected successfully using private endpoint.")
                /\ session' = default_config
                /\ pc' = "list_ingresses_begin"
                /\ UNCHANGED exc
           ELSE IF CaughtByFallbackClause(outcome)
           THEN /\ printed' = Append(printed, "Private endpoint failed")
                /\ exc' = NewExc(outcome, "private probe")
                /\ pc' = "init_resolve_public"
                /\ UNCHANGED session
           ELSE /\ exc' = NewExc(outcome, "private probe")
                /\ pc' = Propagated
                /\ UNCHANGED <<printed, session>>
    /\ UNCHANGED <<default_config, resolved>>
    /\ NegotiationUnchanged

\* Lines 34-35, run inside the handler of the private failure held in exc.
ResolvePublic ==
    /\ pc = "init_resolve_public"
    /\ LET r == get_cluster_credentials(FALSE, cluster, default_config)
       IN  /\ resolved' = Append(resolved, "public")
           /\ default_config' = r.default
           /\ IF r.exc = NoExc
              THEN /\ pc' = "init_probe_public"
                   /\ UNCHANGED exc
              ELSE /\ pc' = Propagated
                   /\ exc' = RaisedWhileHandling(r.exc, exc)
    /\ UNCHANGED <<probes, session, printed>>
    /\ NegotiationUnchanged

\* The public attempt without its own handler: a failed public probe leaves
\* as it is, and the private failure is forgotten.
ProbePublicNoHandler ==
    /\ pc = "init_probe_public"
    /\ probes' = Append(probes, default_config)
    /\ LET outcome == ProbeResult(cluster, default_config)
       IN  IF outcome = "ok"
           THEN /\ printed' = Append(printed, "Connected successfully using public endpoint.")
                /\ session' = default_config
                /\ pc' = "list_ingresses_begin"
                /\ exc' = NoExc
           ELSE /\ exc' = NewExc(outcome, "public probe")
                /\ pc' = Propagated
                /\ UNCHANGED <<printed, session>>
    /\ UNCHANGED <<default_config, resolved>>
    /\ NegotiationUnchanged

\* Lines 37-45, run inside the handler of the private failure held in exc.
ProbePublic ==
    /\ pc = "init_probe_public"
    /\ probes' = Append(probes, default_config)
    /\ LET outcome == ProbeResult(cluster, default_config)
           failure == RaisedWhileHandling(NewExc(outcome, "public probe"), exc)
       IN  IF outcome = "ok"
           THEN /\ printed' = Append(printed, "Connected successfully using public endpoint.")
                /\ session' = default_config
                /\ pc' = "list_ingresses_begin"
                /\ exc' = NoExc
           ELSE IF CaughtByFallbackClause(outcome)
           THEN /\ printed' = Append(printed, "Public endpoint failed")
                /\ exc' = RaisedWhileHandling(
                              NewExc("Exception",
                                     "Failed to connect using both public and private endpoints"),
                              failure)
                /\ pc' = Propagated
                /\ UNCHANGED session
           ELSE /\ exc' = failure
                /\ pc' = Propagated
                /\ UNCHANGED <<printed, session>>
    /\ UNCHANGED <<default_config, resolved>>
    /\ NegotiationUnchanged

\* Lines 336-337: main's handler prints the error and main returns.
MainExcept ==
    /\ pc = "main_except"
    /\ printed' = Append(printed, "Error: " \o exc.msg)
    /\ pc' = "done"
    /\ UNCHANGED <<entry, cluster, cluster_namespaces, customApi, default_config,
                   resolved, probes, session, exc, nsIdx, api_calls, ingress_endpoints,
                   gateway_endpoints, flat_ingress_data, flat_gateway_data,
                   write_calls, csvfile, addresses, classified>>

-----------------------------------------------------------------------------
\* Python dicts: entries [k, v] in insertion order, keys tagged by type.

StrKey(s) == <<"str", s>>
IntKey(n) == <<"int", n>>

HasKey(d, k) == \E i \in 1..Len(d) : d[i].k = k

Get(d, k) == d[CHOOSE i \in 1..Len(d) : d[i].k = k].v

\* d[k] = v: an existing key keeps its place and gets the new value.
SetItem(d, k, v) ==
    IF HasKey(d, k)
    THEN [i \in 1..Len(d) |-> IF d[i].k = k THEN [k |-> k, v |-> v] ELSE d[i]]
    ELSE Append(d, [k |-> k, v |-> v])

\* d.setdefault(p1, {}).setdefault(p2, {}) ... [pn] = v
RECURSIVE SetPath(_, _, _)
SetPath(d, path, v) ==
    IF Len(path) = 1
    THEN SetItem(d, path[1], v)
    ELSE SetItem(d, path[1],
                 SetPath(IF HasKey(d, path[1]) THEN Get(d, path[1]) ELSE <<>>,
                         Tail(path), v))

\* The concatenation of the sequences in ss, in order: what nested for loops
\* over .items() that append to one list produce.
Concat(ss) ==
    LET f[i \in 0..Len(ss)] == IF i = 0 THEN <<>> ELSE f[i - 1] \o ss[i]
    IN  f[Len(ss)]

\* Optional values: a list that may be None, a dict key that may be absent.
NoneList == [isNone |-> TRUE, items |-> <<>>]
ListOf(s) == [isNone |-> FALSE, items |-> s]
OrEmpty(l) == IF l.isNone \/ l.items = <<>> THEN <<>> ELSE l.items

Absent == [has |-> FALSE, v |-> PyNone]
Present(x) == [has |-> TRUE, v |-> x]
DictGet(o, default) == IF o.has THEN o.v ELSE default

\* str(x) of a string or None.
PyStr(x) == IF x = PyNone THEN "None" ELSE x

NsNames(n) == [i \in 1..n |-> "ns" \o ToString(i)]

-----------------------------------------------------------------------------
\* list_ingresses.

ingress_headers ==
    <<"PROJECT_ID", "CLUSTER_NAME", "namespace", "ingress_name", "rule_count",
      "route", "service", "port", "ingress_class">>

ingress_class_key == "kubernetes.io/ingress.class"

PathApi == [path |-> "/api", service |-> "api", port |-> 8080]
PathRoot == [path |-> PyNone, service |-> "front", port |-> 80]

IngressObjs ==
    { [name |-> "web", annotations |-> NoneList,
       rules |-> ListOf(<<[host |-> "a.example", paths |-> ListOf(<<PathApi>>)]>>)],
      [name |-> "web",
       annotations |-> ListOf(<<[k |-> StrKey(ingress_class_key), v |-> "nginx"]>>),
       rules |-> ListOf(<<[host |-> PyNone, paths |-> ListOf(<<PathRoot, PathApi>>)]>>)],
      [name |-> "admin",
       annotations |-> ListOf(<<[k |-> StrKey("owner"), v |-> "ops"]>>),
       rules |-> ListOf(<<[host |-> "b.example", paths |-> NoneList],
                          [host |-> "b.example", paths |-> ListOf(<<PathRoot>>)]>>)] }

\* What netApi.list_namespaced_ingress(namespace) gives: a list, or an API error.
IngressResponses ==
    {[exc |-> "ApiException", items |-> <<>>]}
    \cup {[exc |-> "none", items |-> l] : l \in SeqsUpTo(IngressObjs, MaxIngresses)}

\* Lines 145-152.
IngressClassOf(ingress) ==
    LET annotations == ingress.annotations
    IN  IF ~annotations.isNone /\ annotations.items # <<>>
           /\ HasKey(annotations.items, StrKey(ingress_class_key))
        THEN Get(annotations.items, StrKey(ingress_class_key))
        ELSE PyNone

\* Lines 155-172 for one Ingress: the leaves in the order the two loops reach
\* them; the leaf at position i is stored under rule_count i - 1.
RECURSIVE IngressLeaves(_, _)
IngressLeaves(rules, ingress_class) ==
    IF rules = <<>> THEN <<>>
    ELSE LET rule == rules[1]
             paths == OrEmpty(rule.paths)
         IN  [i \in 1..Len(paths) |->
                 [route |-> PyStr(rule.host)
                            \o (IF paths[i].path \in {PyNone, ""} THEN "/" ELSE paths[i].path),
                  service |-> paths[i].service,
                  port |-> ToString(paths[i].port),
                  ingress_class |-> ingress_class]]
             \o IngressLeaves(Tail(rules), ingress_class)

\* The assignments of one resource's leaves, the counter starting at `count`.
RECURSIVE AssignLeaves(_, _, _, _)
AssignLeaves(d, prefix, leaves, count) ==
    IF leaves = <<>> THEN d
    ELSE AssignLeaves(SetPath(d, Append(prefix, IntKey(count)), leaves[1]),
                      prefix, Tail(leaves), count + 1)

\* Lines 144-172: the loop over the Ingress objects of one namespace.
RECURSIVE AggregateIngresses(_, _, _)
AggregateIngresses(d, namespace, ingresses) ==
    IF ingresses = <<>> THEN d
    ELSE LET ingress == ingresses[1]
             leaves == IngressLeaves(OrEmpty(ingress.rules), IngressClassOf(ingress))
             prefix == <<StrKey(PROJECT_ID), StrKey(CLUSTER_NAME), StrKey(namespace),
                         StrKey(ingress.name)>>
         IN  AggregateIngresses(AssignLeaves(d, prefix, leaves, 0), namespace,
                                Tail(ingresses))

WalkUnchanged ==
    UNCHANGED <<entry, cluster, cluster_namespaces, customApi, default_config, resolved,
                probes, session, printed, flat_ingress_data, flat_gateway_data,
                write_calls, csvfile, addresses, classified>>

\* Lines 130-134.
ListIngressesBegin ==
    /\ pc = "list_ingresses_begin"
    /\ ingress_endpoints' = <<>>
    /\ nsIdx' = 1
    /\ pc' = "list_ingresses"
    /\ UNCHANGED <<exc, api_calls, gateway_endpoints>>
    /\ WalkUnchanged

\* Lines 135-172: one iteration of the namespace loop.
ListIngressesNamespace ==
    /\ pc = "list_ingresses"
    /\ nsIdx <= Len(cluster_namespaces)
    /\ \E resp \in IngressResponses :
          LET namespace == cluster_namespaces[nsIdx]
          IN  /\ api_calls' = Append(api_calls,
                                     [kind |-> "ingress", namespace |-> namespace,
                                      exc |-> resp.exc, items |-> resp.items])
              /\ IF resp.exc # "none"
                 THEN /\ exc' = NewExc(resp.exc, "list_namespaced_ingress")
                      /\ pc' = Propagated
                      /\ UNCHANGED <<ingress_endpoints, nsIdx>>
                 ELSE /\ ingress_endpoints' =
                             AggregateIngresses(ingress_endpoints, namespace, resp.items)
                      /\ nsIdx' = nsIdx + 1
                      /\ UNCHANGED <<exc, pc>>
    /\ UNCHANGED gateway_endpoints
    /\ WalkUnchanged

\* The return of list_ingresses indented into the namespace loop: it returns
\* after the first namespace.
ListIngressesReturnEarly ==
    /\ pc = "list_ingresses"
    /\ nsIdx > 1 \/ nsIdx > Len(cluster_namespaces)
    /\ pc' = "list_gateways_begin"
    /\ UNCHANGED <<exc, nsIdx, api_calls, ingress_endpoints, gateway_endpoints>>
    /\ WalkUnchanged

\* Line 174; main goes on to line 327.
ListIngressesReturn ==
    /\ pc = "list_ingresses"
    /\ nsIdx > Len(cluster_namespaces)
    /\ pc' = "list_gateways_begin"
    /\ UNCHANGED <<exc, nsIdx, api_calls, ingress_endpoints, gateway_endpoints>>
    /\ WalkUnchanged

\* flatten_ingress_data: one row per leaf, in the nested iteration order.
flatten_ingress_data(data) ==
    Concat([p \in 1..Len(data) |->
      LET clusters == data[p].v IN
      Concat([c \in 1..Len(clusters) |->
        LET namespaces == clusters[c].v IN
        Concat([n \in 1..Len(namespaces) |->
          LET ingresses == namespaces[n].v IN
          Concat([g \in 1..Len(ingresses) |->
            LET rules == ingresses[g].v IN
            [r \in 1..Len(rules) |->
              LET details == rules[r].v IN
              [PROJECT_ID |-> data[p].k[2],
               CLUSTER_NAME |-> clusters[c].k[2],
               namespace |-> namespaces[n].k[2],
               ingress_name |-> ingresses[g].k[2],
               rule_count |-> rules[r].k[2],
               route |-> details.route,
               service |-> details.service,
               port |-> details.port,
               ingress_class |-> details.ingress_class]]])])])])

-----------------------------------------------------------------------------
\* Strings that are inspected character by character.

UpperChars == <<"A", "B", "C", "D", "E", "F", "G", "H", "I", "J", "K", "L", "M",
                "N", "O", "P", "Q", "R", "S", "T", "U", "V", "W", "X", "Y", "Z">>
LowerChars == <<"a", "b", "c", "d", "e", "f", "g", "h", "i", "j", "k", "l", "m",
                "n", "o", "p", "q", "r", "s", "t", "u", "v", "w", "x", "y", "z">>

\* The lower-case letter of every upper-case letter.
LowerOf ==
    [c \in Range(UpperChars) |->
        LowerChars[CHOOSE j \in 1..Len(UpperChars) : UpperChars[j] = c]]

\* str.lower()
Lower(s) == [i \in 1..Len(s) |-> IF s[i] \in DOMAIN LowerOf THEN LowerOf[s[i]] ELSE s[i]]

\* sub in s
Contains(s, sub) ==
    \E i \in 0..(Len(s) - Len(sub)) : SubSeq(s, i + 1, i + Len(sub)) = sub

NoneChars == <<"<None>">>                                    \* None
NoneMarker == <<"N", "o", "n", "e">>                         \* "None"
Inferred == <<"i", "n", "f", "e", "r", "r", "e", "d">>       \* "inferred"
LoadbalancerWord == <<"l", "o", "a", "d", "b", "a", "l", "a", "n", "c", "e", "r">>

Ip5 == <<"1", "0", ".", "0", ".", "0", ".", "5">>            \* "10.0.0.5"
Ip6 == <<"1", "0", ".", "0", ".", "0", ".", "6">>            \* "10.0.0.6"
HostLb == <<"M", "y", "-", "L", "o", "a", "d", "B", "a", "l", "a", "n", "c", "e", "r",
            ".", "e", "x">>                                  \* "My-LoadBalancer.ex"
HostGw == <<"g", "w", ".", "e", "x">>                        \* "gw.ex"

\* not x, for a string or None
Falsy(x) == x = NoneChars \/ x = <<>>

-----------------------------------------------------------------------------
\* list_gateways.

gateway_headers ==
    <<"PROJECT_ID", "CLUSTER_NAME", "namespace", "gateway_name", "gateway_class",
      "loadbalancer", "ip_address", "listener_count", "listener_name",
      "listener_protocol", "listener_port", "routes">>

AddressValues ==
    { [type |-> "IPAddress", value |-> Ip5],
      [type |-> "IPAddress", value |-> Ip6],
      [type |-> "Hostname", value |-> HostLb],
      [type |-> "Hostname", value |-> HostGw] }

\* Lines 216-223: the body of the loop over the status addresses.
ClassifyAddress(st, address) ==
    LET first == IF address.type = "IPAddress"
                 THEN [st EXCEPT !.ip_address = address.value]
                 ELSE IF address.type = "Hostname"
                         /\ Contains(Lower(address.value), LoadbalancerWord)
                 THEN [st EXCEPT !.loadbalancer = address.value]
                 ELSE st
    IN  IF Falsy(first.ip_address) /\ address.type = "IPAddress"
        THEN [loadbalancer |-> Inferred, ip_address |-> address.value]
        ELSE first

\* Lines 208-223.
RECURSIVE ClassifyLoop(_, _)
ClassifyLoop(st, addrs) ==
    IF addrs = <<>> THEN st
    ELSE ClassifyLoop(ClassifyAddress(st, addrs[1]), Tail(addrs))

\* Lines 208-223 and the defaults of lines 246-247: the two fields as stored.
ClassifyAddresses(addrs) ==
    LET st == ClassifyLoop([loadbalancer |-> NoneChars, ip_address |-> NoneChars], addrs)
    IN  [loadbalancer |-> IF Falsy(st.loadbalancer) THEN NoneMarker ELSE st.loadbalancer,
         ip_address |-> IF Falsy(st.ip_address) THEN NoneMarker ELSE st.ip_address]

Listener(name, protocol, port) ==
    [name |-> Present(name), protocol |-> Present(protocol), port |-> port]

GatewayObjs ==
    { [name |-> "gw", gatewayClassName |-> Present("gke-l7"),
       addresses |-> [has |-> TRUE, v |-> <<[type |-> "IPAddress", value |-> Ip5]>>],
       listeners |-> [has |-> TRUE, v |-> <<Listener("http", "HTTP", Present(80))>>]],
      [name |-> "gw", gatewayClassName |-> Absent,
       addresses |-> [has |-> FALSE, v |-> <<>>],
       listeners |-> [has |-> TRUE, v |-> <<Listener("https", "HTTPS", Present(443)),
                                             Listener("http", "HTTP", Present(80))>>]],
      [name |-> "edge", gatewayClassName |-> Present("gke-l7"),
       addresses |-> [has |-> TRUE, v |-> <<[type |-> "Hostname", value |-> HostLb]>>],
       listeners |-> [has |-> TRUE, v |-> <<Listener("tcp", "TCP", Absent)>>]] }

\* What customApi.list_namespaced_custom_object(...) gives.  The name customApi
\* is assigned nowhere in the module: unless the importing code binds it, the
\* call raises NameError.
GatewayResponses(api) ==
    IF api = "unbound"
    THEN {[exc |-> "NameError", items |-> <<>>]}
    ELSE {[exc |-> "ApiException", items |-> <<>>]}
         \cup {[exc |-> "none", items |-> l] : l \in SeqsUpTo(GatewayObjs, MaxGateways)}

\* Lines 206-253 for one Gateway: one leaf per listener.
GatewayLeaves(gateway) ==
    LET gateway_class == DictGet(gateway.gatewayClassName, "None")
        fields == ClassifyAddresses(DictGet(gateway.addresses, <<>>))
        listeners == DictGet(gateway.listeners, <<>>)
    IN  [i \in 1..Len(listeners) |->
            [gateway_class |-> gateway_class,
             loadbalancer |-> fields.loadbalancer,
             ip_address |-> fields.ip_address,
             listener_name |-> DictGet(listeners[i].name, PyNone),
             listener_protocol |-> DictGet(listeners[i].protocol, PyNone),
             listener_port |-> IF listeners[i].port.has
                               THEN ToString(listeners[i].port.v) ELSE "None",
             routes |-> "N/A"]]

\* Lines 205-253: the loop over the Gateway objects of one namespace.
RECURSIVE AggregateGateways(_, _, _)
AggregateGateways(d, namespace, gateways) ==
    IF gateways = <<>> THEN d
    ELSE LET gateway == gateways[1]
             prefix == <<StrKey(PROJECT_ID), StrKey(CLUSTER_NAME), StrKey(namespace),
                         StrKey(gateway.name)>>
         IN  AggregateGateways(AssignLeaves(d, prefix, GatewayLeaves(gateway), 0),
                               namespace, Tail(gateways))

\* Lines 180-186.
ListGatewaysBegin ==
    /\ pc = "list_gateways_begin"
    /\ gateway_endpoints' = <<>>
    /\ nsIdx' = 1
    /\ pc' = "list_gateways"
    /\ UNCHANGED <<exc, api_calls, ingress_endpoints>>
    /\ WalkUnchanged

\* The namespace loop of list_gateways without its try / except: a failed
\* listing leaves the function.
ListGatewaysNamespaceNoCatch ==
    /\ pc = "list_gateways"
    /\ nsIdx <= Len(cluster_namespaces)
    /\ \E resp \in GatewayResponses(customApi) :
          LET namespace == cluster_namespaces[nsIdx]
          IN  /\ api_calls' = Append(api_calls,
                                     [kind |-> "gateway", namespace |-> namespace,
                                      exc |-> resp.exc, items |-> resp.items])
              /\ IF resp.exc # "none"
                 THEN /\ exc' = NewExc(resp.exc, "list_namespaced_custom_object")
                      /\ pc' = Propagated
                      /\ UNCHANGED <<gateway_endpoints, nsIdx>>
                 ELSE /\ gateway_endpoints' =
                             AggregateGateways(gateway_endpoints, namespace, resp.items)
                      /\ nsIdx' = nsIdx + 1
                      /\ UNCHANGED <<pc, exc>>
    /\ UNCHANGED ingress_endpoints
    /\ WalkUnchanged

\* Lines 187-253: one iteration of the namespace loop.  Whatever the listing
\* raises is caught (except Exception), reported, and the loop continues.
ListGatewaysNamespace ==
    /\ pc = "list_gateways"
    /\ nsIdx <= Len(cluster_namespaces)
    /\ \E resp \in GatewayResponses(customApi) :
          LET namespace == cluster_namespaces[nsIdx]
          IN  /\ api_calls' = Append(api_calls,
                                     [kind |-> "gateway", namespace |-> namespace,
                                      exc |-> resp.exc, items |-> resp.items])
              /\ gateway_endpoints' =
                    IF resp.exc # "none" THEN gateway_endpoints
                    ELSE AggregateGateways(gateway_endpoints, namespace, resp.items)
    /\ nsIdx' = nsIdx + 1
    /\ UNCHANGED <<pc, exc, ingress_endpoints>>
    /\ WalkUnchanged

\* Line 255; main goes on to line 328, a direct caller to the flattener.
ListGatewaysReturn ==
    /\ pc = "list_gateways"
    /\ nsIdx > Len(cluster_namespaces)
    /\ pc' = IF entry = "main" THEN "flatten_ingress" ELSE "flatten_gateway"
    /\ UNCHANGED <<exc, nsIdx, api_calls, ingress_endpoints, gateway_endpoints>>
    /\ WalkUnchanged

\* The keys flatten_gateway_data reads from `details` (lines 298-305).
GatewayDetailKeys ==
    <<"gateway_class", "loadbalancer", "ip_address", "listener_count", "listener_name",
      "listener_protocol", "listener_port", "routes">>

\* flatten_gateway_data: the loops stop at the gateway level, so `details` is
\* the dict listener_count -> leaf, and each subscript of lines 298-305 looks a
\* string key up in it.
flatten_gateway_data(data) ==
    LET visits ==
          Concat([p \in 1..Len(data) |->
            LET clusters == data[p].v IN
            Concat([c \in 1..Len(clusters) |->
              LET namespaces == clusters[c].v IN
              Concat([n \in 1..Len(namespaces) |->
                LET gateways == namespaces[n].v IN
                [g \in 1..Len(gateways) |->
                  [project_id |-> data[p].k[2],
                   cluster_name |-> clusters[c].k[2],
                   namespace |-> namespaces[n].k[2],
                   gateway_name |-> gateways[g].k[2],
                   details |-> gateways[g].v]]])])])
        Missing(visit) ==
          \E i \in 1..Len(GatewayDetailKeys) :
              ~HasKey(visit.details, StrKey(GatewayDetailKeys[i]))
        Row(visit) ==
          [PROJECT_ID |-> visit.project_id,
           CLUSTER_NAME |-> visit.cluster_name,
           namespace |-> visit.namespace,
           gateway_name |-> visit.gateway_name,
           gateway_class |-> Get(visit.details, StrKey("gateway_class")),
           loadbalancer |-> Get(visit.details, StrKey("loadbalancer")),
           ip_address |-> Get(visit.details, StrKey("ip_address")),
           listener_count |-> Get(visit.details, StrKey("listener_count")),
           listener_name |-> Get(visit.details, StrKey("listener_name")),
           listener_protocol |-> Get(visit.details, StrKey("listener_protocol")),
           listener_port |-> Get(visit.details, StrKey("listener_port")),
           routes |-> Get(visit.details, StrKey("routes"))]
    IN  IF \E i \in 1..Len(visits) : Missing(visits[i])
        THEN [exc |-> NewExc("KeyError", "gateway_class"), rows |-> <<>>]
        ELSE [exc |-> NoExc, rows |-> [i \in 1..Len(visits) |-> Row(visits[i])]]

-----------------------------------------------------------------------------
\* write_csv.

IntColumns == {"rule_count", "listener_count"}
CharColumns == {"loadbalancer", "ip_address"}

\* What the csv writer puts in a cell: None as the empty string, a number as
\* its decimal digits.
CsvCell(column, value) ==
    IF column \in IntColumns THEN ToString(value)
    ELSE IF column \in CharColumns THEN value
    ELSE IF value = PyNone THEN "" ELSE value

\* DictWriter.writerows: a row with a key outside fieldnames raises ValueError
\* (extrasaction is "raise"); a fieldname the row lacks is written as "".
RECURSIVE WriteRows(_, _, _)
WriteRows(file, rows, headers) ==
    IF rows = <<>> THEN [exc |-> NoExc, file |-> file]
    ELSE LET row == rows[1]
         IN  IF ~(DOMAIN row \subseteq Range(headers))
             THEN [exc |-> NewExc("ValueError", "dict contains fields not in fieldnames"),
                   file |-> file]
             ELSE WriteRows(
                      Append(file,
                             [i \in 1..Len(headers) |->
                                 IF headers[i] \in DOMAIN row
                                 THEN CsvCell(headers[i], row[headers[i]]) ELSE ""]),
                      Tail(rows), headers)

\* write_csv: open(..., "w") truncates the file, writeheader, writerows.
write_csv(data, headers) == WriteRows(<<headers>>, data, headers)

-----------------------------------------------------------------------------
\* main, after the walks.

TailUnchanged ==
    UNCHANGED <<entry, cluster, cluster_namespaces, customApi, default_config, resolved,
                probes, session, printed, nsIdx, api_calls, ingress_endpoints,
                gateway_endpoints, addresses, classified>>

\* Line 328.
FlattenIngress ==
    /\ pc = "flatten_ingress"
    /\ flat_ingress_data' = flatten_ingress_data(ingress_endpoints)
    /\ pc' = "flatten_gateway"
    /\ UNCHANGED <<exc, flat_gateway_data, write_calls, csvfile>>
    /\ TailUnchanged

\* Line 329.
FlattenGateway ==
    /\ pc = "flatten_gateway"
    /\ LET r == flatten_gateway_data(gateway_endpoints)
       IN  IF r.exc # NoExc
           THEN /\ exc' = r.exc
                /\ pc' = Propagated
                /\ UNCHANGED flat_gateway_data
           ELSE /\ flat_gateway_data' = r.rows
                /\ pc' = IF entry = "main" THEN "write_ingress" ELSE "done"
                /\ UNCHANGED exc
    /\ UNCHANGED <<flat_ingress_data, write_calls, csvfile>>
    /\ TailUnchanged

\* One write_csv call of main and what follows it.
WriteCall(data, headers, next) ==
    LET r == write_csv(data, headers)
    IN  /\ write_calls' = Append(write_calls, [data |-> data, headers |-> headers])
        /\ csvfile' = r.file
        /\ IF r.exc # NoExc
           THEN exc' = r.exc /\ pc' = Propagated
           ELSE pc' = next /\ UNCHANGED exc
        /\ UNCHANGED <<flat_ingress_data, flat_gateway_data>>
        /\ TailUnchanged

\* Line 331.
WriteIngress ==
    /\ pc = "write_ingress"
    /\ WriteCall(flat_ingress_data, ingress_headers, "write_gateway")

\* Line 332.
WriteGateway ==
    /\ pc = "write_gateway"
    /\ WriteCall(flat_ingress_data, gateway_headers, "done")

-----------------------------------------------------------------------------
\* The classification of one Gateway's addresses, entered alone.

Classify ==
    /\ pc = "classify"
    /\ classified' = ClassifyAddresses(addresses)
    /\ pc' = "done"
    /\ UNCHANGED <<entry, cluster, cluster_namespaces, customApi, default_config,
                   resolved, probes, session, printed, exc, nsIdx, api_calls,
                   ingress_endpoints, gateway_endpoints, flat_ingress_data,
                   flat_gateway_data, write_calls, csvfile, addresses>>

-----------------------------------------------------------------------------
\* Specifications.

Unclassified == [loadbalancer |-> NoneChars, ip_address |-> NoneChars]

InitCommon ==
    /\ default_config = "unset"
    /\ resolved = <<>>
    /\ probes = <<>>
    /\ printed = <<>>
    /\ exc = NoExc
    /\ nsIdx = 1
    /\ api_calls = <<>>
    /\ ingress_endpoints = <<>>
    /\ gateway_endpoints = <<>>
    /\ flat_ingress_data = <<>>
    /\ flat_gateway_data = <<>>
    /\ write_calls = <<>>
    /\ csvfile = <<>>
    /\ classified = Unclassified

\* The script: main() on some cluster.  Nothing binds customApi.
Init ==
    /\ entry = "main"
    /\ pc = "init_resolve_private"
    /\ cluster \in Clusters
    /\ cluster_namespaces \in {NsNames(n) : n \in 0..MaxNs}
    /\ customApi = "unbound"
    /\ session = "none"
    /\ addresses = <<>>
    /\ InitCommon

Next ==
    \/ ResolvePrivate
    \/ ProbePrivate
    \/ ResolvePublic
    \/ ProbePublic
    \/ ListIngressesBegin
    \/ ListIngressesNamespace
    \/ ListIngressesReturn
    \/ ListGatewaysBegin
    \/ ListGatewaysNamespace
    \/ ListGatewaysReturn
    \/ FlattenIngress
    \/ FlattenGateway
    \/ WriteIngress
    \/ WriteGateway
    \/ MainExcept

Spec == Init /\ [][Next]_vars

\* list_gateways called with a live client, then flatten_gateway_data on what
\* it returned; the caller may have bound customApi.
InitGateways ==
    /\ entry = "list_gateways"
    /\ pc = "list_gateways_begin"
    /\ cluster = [hasPrivate |-> FALSE, privProbe |-> "n/a", pubProbe |-> "ok"]
    /\ cluster_namespaces \in {NsNames(n) : n \in 0..MaxNs}
    /\ customApi \in {"unbound", "bound"}
    /\ session = "public"
    /\ addresses = <<>>
    /\ InitCommon

NextGateways ==
    \/ ListGatewaysBegin
    \/ ListGatewaysNamespace
    \/ ListGatewaysReturn
    \/ FlattenGateway

SpecGateways == InitGateways /\ [][NextGateways]_vars

\* The address classification of list_gateways on one list of addresses.
InitClassify ==
    /\ entry = "classify"
    /\ pc = "classify"
    /\ cluster = [hasPrivate |-> FALSE, privProbe |-> "n/a", pubProbe |-> "ok"]
    /\ cluster_namespaces = <<>>
    /\ customApi = "unbound"
    /\ session = "none"
    /\ addresses \in SeqsUpTo(AddressValues, MaxAddrs)
    /\ InitCommon

NextClassify == Classify

SpecClassify == InitClassify /\ [][NextClassify]_vars

-----------------------------------------------------------------------------
\* Properties of the client initialisation.

NegotiationDone ==
    pc \notin {"init_resolve_private", "init_probe_private",
               "init_resolve_public", "init_probe_public"}

\* The probe failures the fallback is specified for.
ProbeFailures == {"ConnectTimeout", "ApiException"}

PrivateDownPublicUp ==
    /\ entry = "main"
    /\ cluster.hasPrivate
    /\ cluster.privProbe \in ProbeFailures
    /\ cluster.pubProbe = "ok"

\* C1: when the private probe fails with a timeout or an API error and the
\* public endpoint is reachable, init_k8s_client has resolved and probed the
\* private endpoint, then the public one, and returns clients bound to the
\* public endpoint, announced as such.
C1_FallsBackToPublic ==
    (PrivateDownPublicUp /\ NegotiationDone)
        => /\ resolved = <<"private", "public">>
           /\ probes = <<"private", "public">>
           /\ session = "public"
           /\ printed[2] = "Connected successfully using public endpoint."

C1_Witness ==
    /\ PrivateDownPublicUp
    /\ pc = "list_ingresses_begin"
    /\ probes = <<"private", "public">>
    /\ session = "public"

\* C2: a cluster without a private endpoint is negotiated on its public
\* endpoint alone: the public endpoint is probed before the negotiation can
\* fail, and when it is reachable the clients returned are bound to it.
C2_PublicOnlyCluster ==
    (entry = "main" /\ ~cluster.hasPrivate /\ NegotiationDone)
        => /\ probes = <<"public">>
           /\ cluster.pubProbe = "ok" => session = "public"

C4_PrivateSuccessStops ==
    (entry = "main" /\ cluster.hasPrivate /\ cluster.privProbe = "ok")
        => /\ "public" \notin Range(resolved)
           /\ "public" \notin Range(probes)
           /\ NegotiationDone => /\ probes = <<"private">>
                                 /\ session = "private"

C4_Witness ==
    /\ cluster.hasPrivate
    /\ cluster.privProbe = "ok"
    /\ pc = "list_ingresses_begin"
    /\ session = "private"
    /\ probes = <<"private">>

-----------------------------------------------------------------------------
\* Properties of the Gateway address classification.

LbHostnames(addrs) ==
    {i \in 1..Len(addrs) : /\ addrs[i].type = "Hostname"
                           /\ Contains(Lower(addrs[i].value), LoadbalancerWord)}

IpAddresses(addrs) == {i \in 1..Len(addrs) : addrs[i].type = "IPAddress"}

Min(S) == CHOOSE x \in S : \A y \in S : x <= y

\* C5: the fields list_gateways stores follow the three tiers: a Hostname
\* address containing "loadbalancer" (in any case) is the loadbalancer;
\* otherwise, with an IPAddress address present, ip_address is the first such
\* address and loadbalancer is "inferred"; with no address both are "None".
C5_ThreeTierClassification ==
    (entry = "classify" /\ pc = "done")
        => IF LbHostnames(addresses) # {}
           THEN \E i \in LbHostnames(addresses) :
                    classified.loadbalancer = addresses[i].value
           ELSE IF IpAddresses(addresses) # {}
           THEN /\ classified.ip_address = addresses[Min(IpAddresses(addresses))].value
                /\ classified.loadbalancer = Inferred
           ELSE addresses = <<>>
                    => /\ classified.loadbalancer = NoneMarker
                       /\ classified.ip_address = NoneMarker

-----------------------------------------------------------------------------
\* Properties of the aggregation and the flatteners.

CallsOf(kind) == SelectSeq(api_calls, LAMBDA c : c.kind = kind /\ c.exc = "none")

\* The leaves a listing hands to the aggregator, in order: its composite key
\* and its fields.
IngressLeavesOf(ingress) ==
    IngressLeaves(OrEmpty(ingress.rules), IngressClassOf(ingress))

LeavesOf(kind, object) ==
    IF kind = "ingress" THEN IngressLeavesOf(object) ELSE GatewayLeaves(object)

ListedLeaves(kind, namespace, items) ==
    Concat([n \in 1..Len(items) |->
        LET leaves == LeavesOf(kind, items[n])
        IN  [i \in 1..Len(leaves) |->
                [key |-> <<PROJECT_ID, CLUSTER_NAME, namespace, items[n].name, i - 1>>,
                 leaf |-> leaves[i]]]])

AllListedLeaves(kind) ==
    LET calls == CallsOf(kind)
    IN  Concat([n \in 1..Len(calls) |->
                   ListedLeaves(kind, calls[n].namespace, calls[n].items)])

IngressInserted == AllListedLeaves("ingress")
GatewayInserted == AllListedLeaves("gateway")

DistinctKeys(inserted) ==
    \A i, j \in 1..Len(inserted) : inserted[i].key = inserted[j].key => i = j

IngressFlattened ==
    entry = "main" /\ pc \in {"flatten_gateway", "write_ingress", "write_gateway"}

GatewayFlattened ==
    entry = "list_gateways" /\ pc \in {"done", "raised"}

IngressRoundTrip ==
    (IngressFlattened /\ DistinctKeys(IngressInserted))
        => /\ Len(flat_ingress_data) = Len(IngressInserted)
           /\ \A i \in 1..Len(IngressInserted) :
                 LET row == flat_ingress_data[i]
                     from == IngressInserted[i]
                 IN  /\ <<row.PROJECT_ID, row.CLUSTER_NAME, row.namespace,
                          row.ingress_name, row.rule_count>> = from.key
                     /\ [f \in DOMAIN from.leaf |-> row[f]] = from.leaf

GatewayRoundTrip ==
    (GatewayFlattened /\ DistinctKeys(GatewayInserted))
        => /\ exc = NoExc
           /\ Len(flat_gateway_data) = Len(GatewayInserted)
           /\ \A i \in 1..Len(GatewayInserted) :
                 LET row == flat_gateway_data[i]
                     from == GatewayInserted[i]
                 IN  /\ <<row.PROJECT_ID, row.CLUSTER_NAME, row.namespace,
                          row.gateway_name, row.listener_count>> = from.key
                     /\ [f \in DOMAIN from.leaf |-> row[f]] = from.leaf

\* C6: for Ingress and for Gateway records alike, N leaves aggregated under
\* distinct composite keys flatten to exactly N rows, row i carrying the key
\* and the fields of leaf i.
C6_RoundTrip == IngressRoundTrip /\ GatewayRoundTrip

\* C7: every write_csv call gets rows whose fields are exactly the headers
\* it is given; main writes the Ingress rows under the Ingress headers, then
\* the Gateway rows under the Gateway headers.
C7_RowsMatchHeaders ==
    /\ \A c \in 1..Len(write_calls) :
          \A r \in 1..Len(write_calls[c].data) :
              DOMAIN write_calls[c].data[r] = Range(write_calls[c].headers)
    /\ Len(write_calls) >= 1
          => write_calls[1] = [data |-> flat_ingress_data, headers |-> ingress_headers]
    /\ Len(write_calls) >= 2
          => write_calls[2] = [data |-> flat_gateway_data, headers |-> gateway_headers]

\* The leaf stored under a composite key.
StoredAt(d, key) ==
    Get(Get(Get(Get(Get(d, StrKey(key[1])), StrKey(key[2])), StrKey(key[3])),
            StrKey(key[4])), IntKey(key[5]))

\* C8: once two insertions name the same composite key, the run has failed
\* with DuplicateLeafKey and the key still holds the leaf inserted first.
C8_DuplicateKeyRejected ==
    \A i, j \in 1..Len(GatewayInserted) :
        (i < j /\ GatewayInserted[i].key = GatewayInserted[j].key
               /\ \A h \in 1..(i - 1) : GatewayInserted[h].key # GatewayInserted[i].key)
            => /\ exc.type = "DuplicateLeafKey"
               /\ StoredAt(gateway_endpoints, GatewayInserted[i].key)
                      = GatewayInserted[i].leaf

-----------------------------------------------------------------------------
\* Properties of the walks.

GatewayCalls == SelectSeq(api_calls, LAMBDA c : c.kind = "gateway")
IngressCalls == SelectSeq(api_calls, LAMBDA c : c.kind = "ingress")

\* What d[PROJECT_ID][CLUSTER_NAME] holds for a namespace, if anything.
NamespaceEntry(d, namespace) ==
    IF d = <<>> THEN [has |-> FALSE, v |-> <<>>]
    ELSE LET namespaces == d[1].v[1].v
         IN  IF HasKey(namespaces, StrKey(namespace))
             THEN [has |-> TRUE, v |-> Get(namespaces, StrKey(namespace))]
             ELSE [has |-> FALSE, v |-> <<>>]

\* C9: a failed Gateway listing takes nothing away from the walk of
\* list_gateways: the listing of every namespace up to the loop's position has
\* been made, failed ones included, the walk ends with all of them made and
\* without the failure leaving the function, and every namespace listed
\* successfully keeps exactly the records aggregated from it.
C9_GatewayFailureSkipsNamespace ==
    entry = "list_gateways"
        => LET calls == GatewayCalls
           IN  /\ pc = "list_gateways" => Len(calls) = nsIdx - 1
               /\ pc \in {"flatten_gateway", "done", "raised"}
                     => Len(calls) = Len(cluster_namespaces)
               /\ \A i \in 1..Len(calls) :
                     LET namespace == calls[i].namespace
                     IN  /\ namespace = cluster_namespaces[i]
                         /\ NamespaceEntry(gateway_endpoints, namespace)
                               = IF calls[i].exc # "none"
                                 THEN [has |-> FALSE, v |-> <<>>]
                                 ELSE NamespaceEntry(
                                          AggregateGateways(<<>>, namespace, calls[i].items),
                                          namespace)
               /\ exc.type \notin {"NameError", "ApiException"}

C9_Witness ==
    /\ entry = "list_gateways"
    /\ pc = "flatten_gateway"
    /\ Len(GatewayCalls) = 2
    /\ GatewayCalls[1].exc = "ApiException"
    /\ GatewayCalls[2].exc = "none"
    /\ NamespaceEntry(gateway_endpoints, GatewayCalls[2].namespace).has

NsIndex(namespace) ==
    CHOOSE i \in 1..Len(cluster_namespaces) : cluster_namespaces[i] = namespace

\* C10: the listings are made namespace by namespace: no listing of an
\* earlier namespace follows a listing of a later one, and a namespace is left
\* only when both its Ingresses and its Gateways have been listed.
C10_NamespaceByNamespace ==
    \A i, j \in 1..Len(api_calls) :
        i < j => /\ NsIndex(api_calls[i].namespace) <= NsIndex(api_calls[j].namespace)
                 /\ NsIndex(api_calls[i].namespace) < NsIndex(api_calls[j].namespace)
                       => \E g \in 1..(j - 1) :
                             /\ api_calls[g].kind = "gateway"
                             /\ api_calls[g].namespace = api_calls[i].namespace

\* C10 as amended: the walk is two passes.  The Ingress listings come first,
\* one per namespace in list_namespace order; a Gateway listing is made only
\* after the Ingresses of every namespace have been listed, and the Gateway
\* listings follow the same namespace order.
C10_TwoPasses ==
    entry = "main"
        => /\ api_calls = IngressCalls \o GatewayCalls
           /\ \A i \in 1..Len(IngressCalls) :
                 IngressCalls[i].namespace = cluster_namespaces[i]
           /\ \A i \in 1..Len(GatewayCalls) :
                 GatewayCalls[i].namespace = cluster_namespaces[i]
           /\ GatewayCalls # <<>>
                 => /\ Len(IngressCalls) = Len(cluster_namespaces)
                    /\ \A i \in 1..Len(IngressCalls) : IngressCalls[i].exc = "none"

C10_Witness ==
    /\ entry = "main"
    /\ Len(cluster_namespaces) = 2
    /\ Len(IngressCalls) = 2
    /\ Len(GatewayCalls) = 2
    /\ api_calls[2].kind = "ingress"
    /\ api_calls[3].kind = "gateway"

-----------------------------------------------------------------------------
\* list_workloads_and_routes.  Names are sequences of characters, so that
\* str.startswith is computed; a label dict is the set of its (key, value)
\* pairs, which is what dict equality compares.

MaxDeployments == 1   \* Deployment objects one listing returns

\* The name the print of line 123 reads.  The module assigns PROJECT_ID, and
\* project_id nowhere.
project_id == "unbound"

Foo == <<"f", "o", "o">>                                       \* "foo"
Bar == <<"b", "a", "r">>                                       \* "bar"
Web == <<"w", "e", "b">>                                       \* "web"
FooSvc == <<"f", "o", "o", "-", "s", "v", "c">>                \* "foo-svc"
FooExtra == <<"f", "o", "o", "-", "e", "x", "t", "r", "a">>    \* "foo-extra"

NoLabels == [has |-> FALSE, v |-> {}]
Labels(pairs) == [has |-> TRUE, v |-> pairs]

DeploymentObjs ==
    { [name |-> Foo, match_labels |-> Labels({<<"app", "foo">>})],
      [name |-> Bar, match_labels |-> Labels({<<"app", "bar">>})],
      [name |-> Web, match_labels |-> NoLabels] }

SvcFoo == [name |-> FooSvc, selector |-> Labels({<<"app", "foo">>})]
SvcExtra == [name |-> FooExtra, selector |-> Labels({<<"app", "bar">>})]
SvcWeb == [name |-> Web, selector |-> NoLabels]

ServiceListings == {<<SvcFoo>>, <<SvcFoo, SvcExtra>>, <<SvcWeb>>}

RouteIngress ==
    [name |-> "routes",
     rules |-> ListOf(<<[host |-> "a.example",
                         paths |-> ListOf(<<[path |-> "/api", service |-> FooSvc],
                                            [path |-> PyNone, service |-> FooExtra]>>)]>>)]
SiteIngress ==
    [name |-> "site",
     rules |-> ListOf(<<[host |-> "b.example", paths |-> NoneList],
                        [host |-> PyNone,
                         paths |-> ListOf(<<[path |-> "/", service |-> Web],
                                            [path |-> "/api", service |-> FooSvc]>>)]>>)]

RouteIngressListings == {<<>>, <<RouteIngress>>, <<RouteIngress, SiteIngress>>}

\* What the three listings of one namespace return (lines 93, 105, 109).
NamespaceWorkloads ==
    [deployments : SeqsUpTo(DeploymentObjs, MaxDeployments),
     services : ServiceListings,
     ingresses : RouteIngressListings]

\* str.startswith
StartsWith(s, prefix) ==
    Len(prefix) <= Len(s) /\ SubSeq(s, 1, Len(prefix)) = prefix

\* Lines 118-119.
RouteMatches(deployment, service, svc_name) ==
    LET selector == deployment.match_labels.v
        svc_selector == IF service.selector.has /\ service.selector.v # {}
                        THEN service.selector.v ELSE {}
    IN  /\ svc_name = service.name
        /\ svc_selector = selector \/ StartsWith(svc_name, deployment.name)

\* Lines 110-123 for one deployment: the print calls it comes to, in order.
RoutesOf(deployment, services, ingresses) ==
    Concat([g \in 1..Len(ingresses) |->
      LET rules == OrEmpty(ingresses[g].rules) IN
      Concat([r \in 1..Len(rules) |->
        LET paths == OrEmpty(rules[r].paths) IN
        Concat([p \in 1..Len(paths) |->
          Concat([v \in 1..Len(services) |->
            IF RouteMatches(deployment, services[v], paths[p].service)
            THEN <<[workload |-> deployment.name,
                    route |-> PyStr(rules[r].host)
                              \o (IF paths[p].path \in {PyNone, ""}
                                  THEN "/" ELSE paths[p].path)]>>
            ELSE <<>>])])])])

\* Line 123, once per matched route: the f-string reads project_id first.
RECURSIVE PrintRoutes(_, _)
PrintRoutes(acc, routes) ==
    IF routes = <<>> THEN acc
    ELSE IF project_id = "unbound"
    THEN [acc EXCEPT !.exc = NewExc("NameError", "name 'project_id' is not defined")]
    ELSE PrintRoutes([acc EXCEPT !.lines = Append(@, routes[1])], Tail(routes))

\* Lines 97-123: the loop over the deployments of one namespace.  Line 102
\* calls .items() on match_labels, which is None for a selector without
\* matchLabels.
RECURSIVE DeploymentLoop(_, _, _, _)
DeploymentLoop(acc, deployments, services, ingresses) ==
    IF deployments = <<>> \/ acc.exc # NoExc THEN acc
    ELSE IF ~deployments[1].match_labels.has
    THEN [acc EXCEPT !.exc = NewExc("AttributeError",
                                    "'NoneType' object has no attribute 'items'")]
    ELSE DeploymentLoop(PrintRoutes(acc, RoutesOf(deployments[1], services, ingresses)),
                        Tail(deployments), services, ingresses)

WorkloadsUnchanged ==
    UNCHANGED <<entry, cluster, cluster_namespaces, customApi, default_config, resolved,
                probes, session, ingress_endpoints, gateway_endpoints, flat_ingress_data,
                flat_gateway_data, write_calls, csvfile, addresses, classified>>

\* Lines 83-88.
ListWorkloadsBegin ==
    /\ pc = "list_workloads_begin"
    /\ nsIdx' = 1
    /\ pc' = "list_workloads"
    /\ UNCHANGED <<exc, api_calls, printed>>
    /\ WorkloadsUnchanged

\* Lines 89-123: one iteration of the namespace loop.
ListWorkloadsNamespace ==
    /\ pc = "list_workloads"
    /\ nsIdx <= Len(cluster_namespaces)
    /\ \E found \in NamespaceWorkloads :
          LET r == DeploymentLoop([exc |-> NoExc, lines |-> printed],
                                  found.deployments, found.services, found.ingresses)
          IN  /\ api_calls' = Append(api_calls,
                                     [kind |-> "workloads",
                                      namespace |-> cluster_namespaces[nsIdx],
                                      exc |-> "none", items |-> found])
              /\ printed' = r.lines
              /\ IF r.exc # NoExc
                 THEN exc' = r.exc /\ pc' = Propagated /\ UNCHANGED nsIdx
                 ELSE nsIdx' = nsIdx + 1 /\ UNCHANGED <<exc, pc>>
    /\ WorkloadsUnchanged

\* The end of the namespace loop: the function returns.
ListWorkloadsReturn ==
    /\ pc = "list_workloads"
    /\ nsIdx > Len(cluster_namespaces)
    /\ pc' = "done"
    /\ UNCHANGED <<exc, nsIdx, api_calls, printed>>
    /\ WorkloadsUnchanged

\* list_workloads_and_routes called with live clients.
InitWorkloads ==
    /\ entry = "list_workloads_and_routes"
    /\ pc = "list_workloads_begin"
    /\ cluster = [hasPrivate |-> FALSE, privProbe |-> "n/a", pubProbe |-> "ok"]
    /\ cluster_namespaces \in {NsNames(n) : n \in 0..MaxNs}
    /\ customApi = "unbound"
    /\ session = "public"
    /\ addresses = <<>>
    /\ InitCommon

NextWorkloads ==
    \/ ListWorkloadsBegin
    \/ ListWorkloadsNamespace
    \/ ListWorkloadsReturn

SpecWorkloads == InitWorkloads /\ [][NextWorkloads]_vars

-----------------------------------------------------------------------------
\* Properties of the workload-to-route matching.

\* The (namespace, deployment, ingress, rule, path, service) positions whose
\* path references the service and whose service is tied to the deployment
\* by selector equality or by the name prefix.
MatchingTriples ==
    {t \in UNION {
        LET w == api_calls[n].items IN
        UNION { UNION { UNION { UNION {
            {<<n, d, g, r, p, v>> : v \in 1..Len(w.services)}
              : p \in 1..Len(OrEmpty(OrEmpty(w.ingresses[g].rules)[r].paths)) }
              : r \in 1..Len(OrEmpty(w.ingresses[g].rules)) }
              : g \in 1..Len(w.ingresses) }
              : d \in 1..Len(w.deployments) }
        : n \in 1..Len(api_calls) } :
        LET w == api_calls[t[1]].items
            deployment == w.deployments[t[2]]
            path == OrEmpty(OrEmpty(w.ingresses[t[3]].rules)[t[4]].paths)[t[5]]
            service == w.services[t[6]]
        IN  /\ path.service = service.name
            /\ \/ (IF service.selector.has THEN service.selector.v ELSE {})
                     = deployment.match_labels.v
               \/ StartsWith(service.name, deployment.name)}

TripleLine(t) ==
    LET w == api_calls[t[1]].items
        rule == OrEmpty(w.ingresses[t[3]].rules)[t[4]]
        path == OrEmpty(rule.paths)[t[5]]
    IN  [workload |-> w.deployments[t[2]].name,
         route |-> PyStr(rule.host)
                   \o (IF path.path \in {PyNone, ""} THEN "/" ELSE path.path)]

AllHaveMatchLabels ==
    \A n \in 1..Len(api_calls) :
        \A d \in 1..Len(api_calls[n].items.deployments) :
            api_calls[n].items.deployments[d].match_labels.has

\* C11: when list_workloads_and_routes has gone through namespaces whose
\* deployments all have matchLabels, it has reported one route per matching
\* (deployment, service, ingress path) triple and nothing else: every line
\* comes from a matching triple, and as many times as triples give it.
C11_EveryMatchReported ==
    (/\ entry = "list_workloads_and_routes"
     /\ pc \in {"done", "raised"}
     /\ AllHaveMatchLabels)
        => /\ exc = NoExc
           /\ Len(printed) = Cardinality(MatchingTriples)
           /\ \A t \in MatchingTriples :
                 Cardinality({i \in 1..Len(printed) : printed[i] = TripleLine(t)})
                    = Cardinality({u \in MatchingTriples : TripleLine(u) = TripleLine(t)})

====
